---- MODULE Spec2Model ----
(***************************************************************************)
(* Model of the fastapi-react-demo client: the plot tab of DemoForm        *)
(* (fetchAndSetPlotData and its join over four generator requests), the    *)
(* SimplePlot renderer (extent, scaleX/scaleY, polylines, markers, labels, *)
(* gridlines, legend), the three form columns of DemoForm (validateInput,  *)
(* handleInputChange, handleFormSubmit, postValue) and the useFetch hook.  *)
(* The generators of the server, whose code is not part of the sources,    *)
(* are modelled from the specification.                                    *)
(*                                                                         *)
(* JavaScript numbers are modelled as exact rationals extended with NaN    *)
(* and the two infinities; rounding of IEEE doubles is not modelled, so    *)
(* equalities between coordinates are the "within floating tolerance"      *)
(* equalities of the specification.                                        *)
(***************************************************************************)
EXTENDS Integers, Sequences, FiniteSets, TLC

VARIABLES
    tab,          \* DemoForm: selected tab (0 or 1)
    plotData,     \* DemoForm: PlotData[] | null
    plotLoading,  \* DemoForm: boolean
    plotError,    \* DemoForm: string | null
    xMin,         \* DemoForm: number
    xMax,         \* DemoForm: number
    batches,      \* the Promise.all joins issued so far, in order of issue
    unjoined,     \* generator requests that have not failed, of rejected joins
    fetchCalls,   \* calls of the global fetch so far
    inputs,       \* DemoForm: string[], one text field per column
    responses,    \* DemoForm: (string | null)[]
    loading,      \* DemoForm: boolean[]
    errors,       \* DemoForm: (string | null)[]
    posts,        \* the postValue requests sent so far, in order of issue
    execs,        \* the calls of useFetch's execute so far, in order of call
    logs,         \* the entries handed to onLogUpdate, in order
    gen,          \* SignalGenerator: one call of a generator and its progress
    data,         \* SimplePlot: the data prop of one render call
    svg           \* SimplePlot: the drawing the render call returned

formVars == <<tab, plotData, plotLoading, plotError, xMin, xMax, batches>>
columnVars == <<inputs, responses, loading, errors, posts>>
hookVars == <<execs, logs>>
plotVars == <<data, svg>>
otherVars == <<columnVars, hookVars, plotVars, gen>>
vars == <<tab, plotData, plotLoading, plotError, xMin, xMax, batches,
          unjoined, fetchCalls,
          inputs, responses, loading, errors, posts, execs, logs, gen, data, svg>>

\* null of a string | null state.
Null == "null"

\* null of plotData (setPlotData is never given an empty array, which leaves
\* the empty sequence free to stand for null).
NoPlotData == <<>>

\* A position of the drawing where the JSX expression rendered nothing.
Nothing == [kind |-> "nothing"]

\* No render call has returned yet.
NotRendered == [kind |-> "not rendered"]

(***************************************************************************)
(* Bounds                                                                  *)
(***************************************************************************)
MaxBatches == 2      \* calls of fetchAndSetPlotData in one run
MaxPosts == 1        \* requests sent by handleFormSubmit in one run
MaxExecs == 2        \* calls of useFetch's execute in one run
MaxCalls == 2        \* batches, posts and execute calls together in one run

(***************************************************************************)
(* DemoForm, plot tab                                                      *)
(***************************************************************************)
\* The four generator endpoints in the order of the Promise.all array.
Endpoints == <<"/linspace", "/exp_cos", "/logistic", "/multi_bump">>

Labels == <<"linspace", "exp_cos", "logistic", "multi_bump">>

ReqIdx == 1..4

\* The messages a request of fetchArrayAPI can fail with: a rejected fetch
\* (TypeError, possibly with an empty message), a non-2xx status.
FailureMessages == {"Failed to fetch", "", "API error: 500"}

\* Those of them the form columns are run with: a message and the empty one.
PostFailureMessages == {"API error: 500", ""}

\* The numbers typed into the x_min / x_max fields.
DomainValues == {0, 1}

\* A /linspace answer that belongs to the most recent request instead of the
\* request it was awaited for.
ResponseBodyOfLatestRequest(b, i) ==
    LET a == IF i = 1 THEN Len(batches) ELSE b
    IN [endpoint |-> Endpoints[i], batch |-> a,
        x_min |-> batches[a].x_min, x_max |-> batches[a].x_max]

\* res.json() of a 2xx response: the arrays the endpoint computed for the
\* request body {x_min, x_max}.  The arrays are kept symbolic: they are named
\* by the endpoint and the request they answer.
ResponseBody(b, i) ==
    [endpoint |-> Endpoints[i], batch |-> b,
     x_min |-> batches[b].x_min, x_max |-> batches[b].x_max]

\* The array setPlotData receives in the success continuation.
JoinedSeries(b) ==
    [i \in ReqIdx |->
        [label |-> Labels[i],
         x |-> [of |-> ResponseBody(b, i), field |-> "x"],
         hasY |-> i # 1,
         y |-> IF i = 1 THEN [of |-> ResponseBody(b, i), field |-> "undefined"]
                        ELSE [of |-> ResponseBody(b, i), field |-> "y"]]]

\* e.message || "API error"
ErrorText(msg) == IF msg = "" THEN "API error" ELSE msg

\* fetchAndSetPlotData: the synchronous part, up to the four fetch calls.
\* Promise.all starts waiting for one answer per request; `waiting` is the
\* number of answers the join still waits for (none once it has settled).
fetchAndSetPlotData ==
    /\ plotLoading' = TRUE
    /\ plotError' = Null
    /\ batches' = Append(batches,
                         [x_min |-> xMin, x_max |-> xMax,
                          waiting |-> Len(Endpoints),
                          state |-> "pending", reason |-> Null])
    /\ fetchCalls' = fetchCalls + Len(Endpoints)
    /\ UNCHANGED plotData

\* Tabs onChange -> setTab(v); the [tab] effect then runs and, on tab 1,
\* calls fetchAndSetPlotData.
SetTab(v) ==
    /\ v # tab
    /\ tab' = v
    /\ IF v = 1
          THEN /\ Len(batches) < MaxBatches
               /\ fetchAndSetPlotData
          ELSE UNCHANGED <<plotData, plotLoading, plotError, batches, fetchCalls>>
    /\ UNCHANGED <<xMin, xMax, unjoined, otherVars>>

\* The x_min field: setXMin(Number(e.target.value)).
SetXMin(v) ==
    /\ tab = 1
    /\ xMin' = v
    /\ UNCHANGED <<tab, plotData, plotLoading, plotError, xMax, batches,
                   unjoined, fetchCalls, otherVars>>

\* The x_max field: setXMax(Number(e.target.value)).
SetXMax(v) ==
    /\ tab = 1
    /\ xMax' = v
    /\ UNCHANGED <<tab, plotData, plotLoading, plotError, xMin, batches,
                   unjoined, fetchCalls, otherVars>>

\* The run button: disabled={plotLoading || xMin === xMax}.
ClickRun ==
    /\ tab = 1
    /\ ~plotLoading
    /\ xMin # xMax
    /\ Len(batches) < MaxBatches
    /\ fetchAndSetPlotData
    /\ UNCHANGED <<tab, xMin, xMax, unjoined, otherVars>>

\* A join that fires one answer early.
JoinFulfilsEarly(waiting) == waiting <= 1

\* Promise.all fulfils when it waits for no further answer.
JoinFulfils(waiting) == waiting = 0

\* One of the still unanswered requests of batch b is answered with a 2xx
\* status and a JSON body.  When it is the last of the four, Promise.all
\* fulfils and the then/finally continuations run.  Once Promise.all has
\* settled, the answers still to come for that batch reach no continuation
\* and are not tracked.
RequestFulfilled(b) ==
    /\ b \in 1..Len(batches)
    /\ batches[b].state = "pending"
    /\ LET waiting == batches[b].waiting - 1
       IN IF JoinFulfils(waiting)
             THEN /\ batches' = [batches EXCEPT ![b].waiting = waiting,
                                                ![b].state = "fulfilled"]
                  /\ plotData' = JoinedSeries(b)
                  /\ plotLoading' = FALSE
             ELSE /\ batches' = [batches EXCEPT ![b].waiting = waiting]
                  /\ UNCHANGED <<plotData, plotLoading>>
    /\ UNCHANGED <<tab, plotError, xMin, xMax, unjoined, fetchCalls, otherVars>>

\* A rejected join whose catch continuation also drops the chart.
RequestRejectedClearsPlot(b, msg) ==
    /\ b \in 1..Len(batches)
    /\ batches[b].state = "pending"
    /\ batches' = [batches EXCEPT ![b].state = "rejected", ![b].reason = msg,
                                  ![b].waiting = 0]
    /\ plotError' = ErrorText(msg)
    /\ plotLoading' = FALSE
    /\ plotData' = NoPlotData
    /\ unjoined' = unjoined + batches[b].waiting - 1
    /\ UNCHANGED <<tab, xMin, xMax, fetchCalls, otherVars>>

\* One of the still unanswered requests of batch b fails with message msg
\* (fetch rejected, or `throw new Error("API error: " + status)`).  The first
\* failure of a batch rejects Promise.all and the catch/finally continuations
\* run.
RequestRejected(b, msg) ==
    /\ b \in 1..Len(batches)
    /\ batches[b].state = "pending"
    /\ batches' = [batches EXCEPT ![b].state = "rejected", ![b].reason = msg,
                                  ![b].waiting = 0]
    /\ plotError' = ErrorText(msg)
    /\ plotLoading' = FALSE
    /\ unjoined' = unjoined + batches[b].waiting - 1
    /\ UNCHANGED <<tab, plotData, xMin, xMax, fetchCalls, otherVars>>

\* One of the other requests of a join that has already rejected fails too.
\* Promise.all settled with the first failure and drops this one: neither the
\* catch nor the finally continuation of fetchAndSetPlotData runs again.  (A
\* fulfilment of such a request runs no continuation either and changes
\* nothing, so it is not a step.)
LateRequestRejected ==
    /\ unjoined > 0
    /\ unjoined' = unjoined - 1
    /\ UNCHANGED <<formVars, fetchCalls, otherVars>>

\* What DemoForm hands to SimplePlot in the current render, if anything.
RenderedPlot == IF tab = 1 /\ plotData # NoPlotData THEN plotData ELSE NoPlotData

(***************************************************************************)
(* JavaScript numbers: exact rationals n/d (d > 0, lowest terms), NaN and  *)
(* the two infinities, with the IEEE rules for the special values.          *)
(***************************************************************************)
NaN == [k |-> "nan", n |-> 0, d |-> 1]
Infinity == [k |-> "inf", n |-> 1, d |-> 1]
NegInfinity == [k |-> "inf", n |-> -1, d |-> 1]

Abs(i) == IF i < 0 THEN -i ELSE i
Sign(i) == IF i < 0 THEN -1 ELSE IF i > 0 THEN 1 ELSE 0

RECURSIVE GCD(_, _)
GCD(a, b) == IF b = 0 THEN a ELSE GCD(b, a % b)

\* The rational n/d, d # 0, in lowest terms with a positive denominator.
Frac(n, d) ==
    LET g == GCD(Abs(n), Abs(d))
    IN [k |-> "fin", n |-> Sign(d) * (n \div g), d |-> Abs(d) \div g]

Num(i) == Frac(i, 1)

IsFinite(a) == a.k = "fin"

JsNeg(a) == IF a.k = "nan" THEN NaN ELSE [a EXCEPT !.n = -a.n]

JsAdd(a, b) ==
    IF a.k = "nan" \/ b.k = "nan" THEN NaN
    ELSE IF a.k = "inf" /\ b.k = "inf" THEN (IF a.n = b.n THEN a ELSE NaN)
    ELSE IF a.k = "inf" THEN a
    ELSE IF b.k = "inf" THEN b
    ELSE Frac(a.n * b.d + b.n * a.d, a.d * b.d)

JsSub(a, b) == JsAdd(a, JsNeg(b))

JsMul(a, b) ==
    IF a.k = "nan" \/ b.k = "nan" THEN NaN
    ELSE IF a.k = "inf" \/ b.k = "inf"
         THEN (IF a.n = 0 \/ b.n = 0 THEN NaN
               ELSE [k |-> "inf", n |-> Sign(a.n) * Sign(b.n), d |-> 1])
    ELSE Frac(a.n * b.n, a.d * b.d)

\* a / b: 0/0 and Infinity/Infinity are NaN, x/0 is an infinity.
JsDiv(a, b) ==
    IF a.k = "nan" \/ b.k = "nan" THEN NaN
    ELSE IF a.k = "inf" /\ b.k = "inf" THEN NaN
    ELSE IF a.k = "inf"
         THEN [k |-> "inf", n |-> a.n * (IF b.n < 0 THEN -1 ELSE 1), d |-> 1]
    ELSE IF b.k = "inf" THEN Num(0)
    ELSE IF b.n = 0
         THEN (IF a.n = 0 THEN NaN
               ELSE [k |-> "inf", n |-> Sign(a.n), d |-> 1])
    ELSE Frac(a.n * b.d, a.d * b.n)

\* a < b; every comparison with NaN is false.
JsLt(a, b) ==
    IF a.k = "nan" \/ b.k = "nan" THEN FALSE
    ELSE IF a.k = "inf" THEN a.n = -1 /\ b # a
    ELSE IF b.k = "inf" THEN b.n = 1
    ELSE a.n * b.d < b.n * a.d

RECURSIVE MathMinFrom(_, _, _)
MathMinFrom(arr, i, acc) ==
    IF i > Len(arr) THEN acc
    ELSE MathMinFrom(arr, i + 1,
             IF acc.k = "nan" \/ arr[i].k = "nan" THEN NaN
             ELSE IF JsLt(arr[i], acc) THEN arr[i] ELSE acc)

\* Math.min(...arr): Infinity for no argument.
MathMin(arr) == MathMinFrom(arr, 1, Infinity)

RECURSIVE MathMaxFrom(_, _, _)
MathMaxFrom(arr, i, acc) ==
    IF i > Len(arr) THEN acc
    ELSE MathMaxFrom(arr, i + 1,
             IF acc.k = "nan" \/ arr[i].k = "nan" THEN NaN
             ELSE IF JsLt(acc, arr[i]) THEN arr[i] ELSE acc)

\* Math.max(...arr): -Infinity for no argument.
MathMax(arr) == MathMaxFrom(arr, 1, NegInfinity)

\* Math.floor(n / m) in the place of Math.ceil(n / m).
MathFloorDiv(n, m) == n \div m

\* Math.ceil(n / m) for integers n >= 0, m > 0.
MathCeilDiv(n, m) == (n + m - 1) \div m

(***************************************************************************)
(* SimplePlot                                                              *)
(* A series is [label, x, hasY, y]: x and y sequences of integers; hasY is  *)
(* false for a series without y array (its y is then undefined and is      *)
(* never to be read).                                                      *)
(***************************************************************************)
\* The 400x200 renderer without legend column.
MinimalGeometry == [width |-> 400, height |-> 200, padding |-> 30, legendWidth |-> 0]

\* The 800x320 renderer with a legend column.
ModernGeometry == [width |-> 800, height |-> 320, padding |-> 40, legendWidth |-> 120]

Palette == <<"#1976d2", "#d32f2f", "#388e3c", "#fbc02d">>

\* Colour of the series at (0-based) position i - 1: palette[i % 4].
SeriesColor(i) == Palette[((i - 1) % 4) + 1]

\* Point labels are thinned out above this many samples.
LabelLimit == 20

RECURSIVE FlatMapFrom(_, _, _)
FlatMapFrom(f, i, acc) ==
    IF i > Len(f) THEN acc ELSE FlatMapFrom(f, i + 1, acc \o f[i])

ToNums(arr) == [j \in 1..Len(arr) |-> Num(arr[j])]

\* An extent that takes x only from the series that are drawn.
AllXOfDrawnSeries(ds) ==
    FlatMapFrom([i \in 1..Len(ds) |->
                    IF ds[i].hasY THEN ToNums(ds[i].x) ELSE <<>>], 1, <<>>)

\* data.flatMap(d => d.x)
AllX(ds) == FlatMapFrom([i \in 1..Len(ds) |-> ToNums(ds[i].x)], 1, <<>>)

\* data.flatMap(d => d.y ?? [])
AllY(ds) ==
    FlatMapFrom([i \in 1..Len(ds) |->
                    IF ds[i].hasY THEN ToNums(ds[i].y) ELSE <<>>], 1, <<>>)

\* minX, maxX, minY, maxY of one render call.
Extent(ds) ==
    [minX |-> MathMin(AllX(ds)),
     maxX |-> MathMax(AllX(ds)),
     minY |-> IF Len(AllY(ds)) # 0 THEN MathMin(AllY(ds)) ELSE Num(0),
     maxY |-> IF Len(AllY(ds)) # 0 THEN MathMax(AllY(ds)) ELSE Num(1)]

\* A scaleX that forgets the legend column.
scaleXOverLegend(g, e, x) ==
    JsAdd(Num(g.padding),
          JsMul(JsDiv(JsSub(x, e.minX), JsSub(e.maxX, e.minX)),
                Num(g.width - 2 * g.padding)))

\* padding + (x - minX) / (maxX - minX) * (width - 2 * padding - legendWidth)
scaleX(g, e, x) ==
    JsAdd(Num(g.padding),
          JsMul(JsDiv(JsSub(x, e.minX), JsSub(e.maxX, e.minX)),
                Num(g.width - 2 * g.padding - g.legendWidth)))

\* A scaleY that forgets the padding under the plot area.
scaleYOverPadding(g, e, y) ==
    JsSub(Num(g.height),
          JsMul(JsDiv(JsSub(y, e.minY), JsSub(e.maxY, e.minY)),
                Num(g.height - 2 * g.padding)))

\* A scaleY that grows downwards with the data.
scaleYNotInverted(g, e, y) ==
    JsAdd(Num(g.padding),
          JsMul(JsDiv(JsSub(y, e.minY), JsSub(e.maxY, e.minY)),
                Num(g.height - 2 * g.padding)))

\* height - padding - (y - minY) / (maxY - minY) * (height - 2 * padding)
scaleY(g, e, y) ==
    JsSub(Num(g.height - g.padding),
          JsMul(JsDiv(JsSub(y, e.minY), JsSub(e.maxY, e.minY)),
                Num(g.height - 2 * g.padding)))

\* d.x.map((x, j) => `${scaleX(x)},${scaleY(d.y![j])}`): the vertices, in
\* order; the text of a coordinate names the number it prints.
PolylinePoints(g, e, d) ==
    [j \in 1..Len(d.x) |-> <<scaleX(g, e, Num(d.x[j])), scaleY(g, e, Num(d.y[j]))>>]

\* d.x.length <= 20 || j % Math.ceil(d.x.length / 20) === 0, for the 0-based
\* index j - 1.
HasValueLabel(n, j) ==
    n <= LabelLimit \/ (j - 1) % MathCeilDiv(n, LabelLimit) = 0

\* The circle of sample j and, when it is labelled, its value label.
PointMarker(g, e, d, i, j) ==
    [cx |-> scaleX(g, e, Num(d.x[j])),
     cy |-> scaleY(g, e, Num(d.y[j])),
     fill |-> SeriesColor(i),
     label |-> IF HasValueLabel(Len(d.x), j)
                  THEN [x |-> scaleX(g, e, Num(d.x[j])),
                        y |-> JsSub(scaleY(g, e, Num(d.y[j])), Num(8)),
                        fill |-> SeriesColor(i),
                        value |-> d.y[j], fractionDigits |-> 2]
                  ELSE Nothing]

\* data.map((d, i) => d.y && (<polyline .../>)) of the minimal renderer.
MinimalSeries(g, e, d, i) ==
    IF d.hasY
       THEN [kind |-> "polyline",
             polyline |-> [stroke |-> SeriesColor(i), points |-> PolylinePoints(g, e, d)],
             markers |-> <<>>]
       ELSE Nothing

\* A series element without the `d.y &&` guard: d.y[j] of a series without y
\* is a read of undefined.
ModernSeriesUnguarded(g, e, d, i) ==
    IF d.hasY
       THEN [kind |-> "g",
             polyline |-> [stroke |-> SeriesColor(i), points |-> PolylinePoints(g, e, d)],
             markers |-> [j \in 1..Len(d.x) |-> PointMarker(g, e, d, i, j)]]
       ELSE IF Len(d.x) > 0 THEN [kind |-> "TypeError"]
       ELSE [kind |-> "g",
             polyline |-> [stroke |-> SeriesColor(i), points |-> <<>>],
             markers |-> <<>>]

\* data.map((d, i) => d.y && (<g> polyline, circles, labels </g>))
ModernSeries(g, e, d, i) ==
    IF d.hasY
       THEN [kind |-> "g",
             polyline |-> [stroke |-> SeriesColor(i), points |-> PolylinePoints(g, e, d)],
             markers |-> [j \in 1..Len(d.x) |-> PointMarker(g, e, d, i, j)]]
       ELSE Nothing

\* Gridlines that start on the axes.
GridFractionsFromZero == <<Num(0), Frac(1, 4), Frac(1, 2), Frac(3, 4)>>

\* [0.25, 0.5, 0.75, 1]
GridFractions == <<Frac(1, 4), Frac(1, 2), Frac(3, 4), Num(1)>>

\* The y of the horizontal and the x of the vertical gridline of fraction f.
GridLine(g, e, f) ==
    [y |-> scaleY(g, e, JsAdd(e.minY, JsMul(JsSub(e.maxY, e.minY), f))),
     x |-> scaleX(g, e, JsAdd(e.minX, JsMul(JsSub(e.maxX, e.minX), f)))]

\* The legend entry of series i of the minimal renderer: a coloured text.
MinimalLegend(d, i) == [label |-> d.label, fill |-> SeriesColor(i)]

\* A legend whose colours are one position off the polylines'.
ModernLegendShifted(d, i) == [label |-> d.label, fill |-> SeriesColor(i + 1), text |-> "#333"]

\* The legend entry of series i: a coloured swatch and the label.
ModernLegend(d, i) == [label |-> d.label, fill |-> SeriesColor(i), text |-> "#333"]

\* Reading d.y[j] of a series without y throws; the exception leaves the
\* render call without a drawing.
TypeError == [kind |-> "TypeError"]

Drawing(elements, rest) ==
    IF \E i \in 1..Len(elements) : elements[i] = TypeError
       THEN TypeError
       ELSE [kind |-> "svg", series |-> elements] @@ rest

\* The first SimplePlot (400x200, no grid, no markers).
SimplePlotMinimal(ds) ==
    LET g == MinimalGeometry
        e == Extent(ds)
    IN Drawing([i \in 1..Len(ds) |-> MinimalSeries(g, e, ds[i], i)],
               [renderer |-> "minimal", width |-> g.width, height |-> g.height,
                background |-> "#fafafa", grid |-> <<>>,
                legend |-> [i \in 1..Len(ds) |-> MinimalLegend(ds[i], i)]])

\* The second SimplePlot (800x320, grid, markers, value labels, legend).
SimplePlot(ds, theme) ==
    LET g == ModernGeometry
        e == Extent(ds)
    IN Drawing([i \in 1..Len(ds) |-> ModernSeries(g, e, ds[i], i)],
               [renderer |-> "modern", width |-> g.width, height |-> g.height,
                background |-> IF theme = "modern"
                                  THEN "linear-gradient(120deg,#f8fafc,#e3e7ed 80%)"
                                  ELSE "#fafafa",
                grid |-> [k \in 1..Len(GridFractions) |-> GridLine(g, e, GridFractions[k])],
                legend |-> [i \in 1..Len(ds) |-> ModernLegend(ds[i], i)]])

\* One render call of the minimal renderer.
RenderMinimal ==
    /\ svg = NotRendered
    /\ svg' = SimplePlotMinimal(data)
    /\ UNCHANGED <<data, formVars, unjoined, fetchCalls, columnVars, hookVars, gen>>

\* One render call of the renderer DemoForm uses.
RenderModern(theme) ==
    /\ svg = NotRendered
    /\ svg' = SimplePlot(data, theme)
    /\ UNCHANGED <<data, formVars, unjoined, fetchCalls, columnVars, hookVars, gen>>

(***************************************************************************)
(* JavaScript strings and their conversion to numbers.  A string is the    *)
(* sequence of its characters.  The conversions scan the characters as the *)
(* ECMAScript algorithms do; a decimal literal whose decimal exponent      *)
(* exceeds 308 converts to Infinity (the overflow of an IEEE double,       *)
(* decided here by the exponent alone).                                    *)
(***************************************************************************)
DecimalDigits == <<"0", "1", "2", "3", "4", "5", "6", "7", "8", "9">>

HexLetters == <<"a", "b", "c", "d", "e", "f">>

Digits == {DecimalDigits[i] : i \in 1..10}

HexDigits == Digits \cup {HexLetters[i] : i \in 1..6}

\* StrWhiteSpaceChar, as far as the strings typed here contain any.
WhiteSpace == {" "}

DigitValue(c) ==
    IF c \in Digits THEN (CHOOSE i \in 1..10 : DecimalDigits[i] = c) - 1
                    ELSE (CHOOSE i \in 1..6 : HexLetters[i] = c) + 9

\* The first index from i on whose character is not in set; Len(s) + 1 if
\* there is none.
RECURSIVE SkipWhile(_, _, _)
SkipWhile(s, i, set) ==
    IF i <= Len(s) /\ s[i] \in set THEN SkipWhile(s, i + 1, set) ELSE i

\* The value of the digits s[i], ..., s[j - 1] in the given radix.
RECURSIVE DigitsValue(_, _, _, _)
DigitsValue(s, i, j, radix) ==
    IF j <= i THEN 0
    ELSE radix * DigitsValue(s, i, j - 1, radix) + DigitValue(s[j - 1])

RECURSIVE Pow10(_)
Pow10(k) == IF k = 0 THEN 1 ELSE 10 * Pow10(k - 1)

\* mantissa * 10^exponent as a double.
Scale10(mantissa, exponent) ==
    IF mantissa.n = 0 THEN mantissa
    ELSE IF exponent > 308 THEN Infinity
    ELSE IF exponent < -324 THEN Num(0)
    ELSE IF exponent >= 0 THEN JsMul(mantissa, Num(Pow10(exponent)))
    ELSE JsDiv(mantissa, Num(Pow10(-exponent)))

\* /^-?\d+/ : the pattern of validateInput without its end anchor.
IntegerPatternUnanchored(s) ==
    LET i == IF Len(s) > 0 /\ s[1] = "-" THEN 2 ELSE 1
    IN SkipWhile(s, i, Digits) > i

\* /^-?\d+$/.test(s)
IntegerPattern(s) ==
    LET i == IF Len(s) > 0 /\ s[1] = "-" THEN 2 ELSE 1
    IN i <= Len(s) /\ SkipWhile(s, i, Digits) = Len(s) + 1

\* The longest prefix of s from index b on that is an unsigned
\* StrDecimalLiteral ("Infinity", or digits with an optional fraction and an
\* optional exponent): whether there is one, where it ends, and its value.
ScanDecimal(s, b) ==
    LET c == SkipWhile(s, b, Digits)
        dot == c <= Len(s) /\ s[c] = "."
        d == IF dot THEN SkipWhile(s, c + 1, Digits) ELSE c
        hasInt == c > b
        hasFrac == dot /\ d > c + 1
        m == IF hasInt \/ hasFrac THEN d ELSE b
        e == m <= Len(s) /\ s[m] \in {"e", "E"}
        signed == e /\ m + 1 <= Len(s) /\ s[m + 1] \in {"+", "-"}
        f == IF signed THEN m + 2 ELSE m + 1
        g == IF e THEN SkipWhile(s, f, Digits) ELSE m
        hasExp == e /\ g > f
        mantissa ==
            IF hasFrac
               THEN Frac(DigitsValue(s, b, c, 10) * Pow10(d - c - 1)
                            + DigitsValue(s, c + 1, d, 10),
                         Pow10(d - c - 1))
               ELSE Num(DigitsValue(s, b, c, 10))
        exponent ==
            IF ~hasExp THEN 0
            ELSE IF s[m + 1] = "-" THEN -DigitsValue(s, f, g, 10)
            ELSE DigitsValue(s, f, g, 10)
    IN IF Len(s) >= b + 7 /\ SubSeq(s, b, b + 7) = <<"I", "n", "f", "i", "n", "i", "t", "y">>
          THEN [ok |-> TRUE, end |-> b + 8, value |-> Infinity]
       ELSE IF ~(hasInt \/ hasFrac)
          THEN [ok |-> FALSE, end |-> b, value |-> NaN]
       ELSE [ok |-> TRUE, end |-> IF hasExp THEN g ELSE m,
             value |-> Scale10(mantissa, exponent)]

\* parseInt(s, 10): leading white space, an optional sign, then the longest
\* run of digits; NaN when there is no digit.
parseInt(s) ==
    LET a == SkipWhile(s, 1, WhiteSpace)
        b == IF a <= Len(s) /\ s[a] \in {"+", "-"} THEN a + 1 ELSE a
        c == SkipWhile(s, b, Digits)
    IN IF c = b THEN NaN
       ELSE IF s[a] = "-" THEN Num(-DigitsValue(s, b, c, 10))
       ELSE Num(DigitsValue(s, b, c, 10))

\* parseFloat(s): leading white space, an optional sign, then the longest
\* prefix that is a decimal literal; what follows it is ignored.
parseFloat(s) ==
    LET a == SkipWhile(s, 1, WhiteSpace)
        b == IF a <= Len(s) /\ s[a] \in {"+", "-"} THEN a + 1 ELSE a
        r == ScanDecimal(s, b)
    IN IF ~r.ok THEN NaN
       ELSE IF s[a] = "-" THEN JsNeg(r.value)
       ELSE r.value

\* The last index down from i whose character is not in set; 0 if none.
RECURSIVE SkipBack(_, _, _)
SkipBack(s, i, set) ==
    IF i >= 1 /\ s[i] \in set THEN SkipBack(s, i - 1, set) ELSE i

\* Number(s): the whole string, white space at both ends removed, must be a
\* numeric literal; the empty string is 0, a 0x literal is read in base 16.
Number(s) ==
    LET a == SkipWhile(s, 1, WhiteSpace)
        z == SkipBack(s, Len(s), WhiteSpace)
        t == SubSeq(s, a, z)
        b == IF Len(t) > 0 /\ t[1] \in {"+", "-"} THEN 2 ELSE 1
        r == ScanDecimal(t, b)
    IN IF Len(t) = 0 THEN Num(0)
       ELSE IF Len(t) > 2 /\ t[1] = "0" /\ t[2] \in {"x", "X"}
          THEN (IF SkipWhile(t, 3, HexDigits) = Len(t) + 1
                   THEN Num(DigitsValue(t, 3, Len(t) + 1, 16))
                   ELSE NaN)
       ELSE IF ~r.ok \/ r.end # Len(t) + 1 THEN NaN
       ELSE IF t[1] = "-" THEN JsNeg(r.value)
       ELSE r.value

isNaN(a) == a.k = "nan"

(***************************************************************************)
(* DemoForm, the three form columns                                        *)
(* The texts the code shows are Japanese; the model writes them in ASCII:  *)
(*   IntegersOnly  整数のみ入力可能です    RealsOnly  実数のみ入力可能です   *)
(*   EnterInteger  整数を入力してください  EnterReal  実数を入力してください *)
(*   NetworkError  通信エラー                                               *)
(***************************************************************************)
IntegersOnly == "only integers can be entered"
RealsOnly == "only real numbers can be entered"
EnterInteger == "enter an integer"
EnterReal == "enter a real number"
NetworkError == "communication error"

ColumnIdx == 0..2

columns ==
    [idx \in ColumnIdx |->
        IF idx = 0 THEN [endpoint |-> "/double", inputType |-> "number", valueType |-> "int"]
        ELSE IF idx = 1 THEN [endpoint |-> "/half", inputType |-> "number", valueType |-> "float"]
        ELSE [endpoint |-> "/repeat", inputType |-> "text", valueType |-> "string"]]

\* null of responses[idx].
NoResponse == [kind |-> "null"]

validateInput(value, valueType) ==
    IF valueType = "int"
       THEN (IF value = <<>> THEN Null
             ELSE IF ~IntegerPattern(value) THEN IntegersOnly
             ELSE Null)
    ELSE IF valueType = "float"
       THEN (IF value = <<>> THEN Null
             ELSE IF isNaN(Number(value)) THEN RealsOnly
             ELSE Null)
    ELSE Null

(***************************************************************************)
(* The texts typed into the form columns                                   *)
(***************************************************************************)
IntegerTexts ==
    {<<>>, <<"3">>, <<"-", "1", "2">>, <<"1", ".", "5">>, <<"-">>, <<"3", " ">>}

RealTexts ==
    {<<>>, <<"8", ".", "5">>, <<"1", "e", "9", "9", "9">>, <<" ">>,
     <<"0", "x", "1", "0">>, <<"a", "b", "c">>}

StringTexts == {<<>>, <<"a", "b", "c">>}

\* What the text field of column idx is changed to.
Texts(idx) ==
    IF idx = 0 THEN IntegerTexts ELSE IF idx = 1 THEN RealTexts ELSE StringTexts

\* A few texts that validateInput accepts: one per column that is sent when
\* submitted, and a blank that is not.
AcceptedTexts(idx) ==
    IF idx = 0 THEN {<<"3">>} ELSE IF idx = 1 THEN {<<"8", ".", "5">>, <<" ">>}
    ELSE {<<"a", "b", "c">>}

\* validateInput(value, columns[idx].valueType) for the texts of column idx.
ValidationOf ==
    [idx \in ColumnIdx |->
        [value \in Texts(idx) |-> validateInput(value, columns[idx].valueType)]]

\* A JavaScript value that is a number, and one that is a string.
NumberValue(n) == [type |-> "number", num |-> n, str |-> <<>>]
StringValue(s) == [type |-> "string", num |-> Num(0), str |-> s]

\* JSON.stringify of a value: NaN and the infinities are written as null.
JSONstringify(v) ==
    IF v.type = "string" THEN [json |-> "string", num |-> Num(0), str |-> v.str]
    ELSE IF IsFinite(v.num) THEN [json |-> "number", num |-> v.num, str |-> <<>>]
    ELSE [json |-> "null", num |-> Num(0), str |-> <<>>]

\* postValue up to its fetch call: the request it sends.
postValue(endpoint, value) ==
    [url |-> "http://127.0.0.1:8000" \o endpoint,
     method |-> "POST",
     body |-> [value |-> JSONstringify(value)]]

\* JSON.stringify(data) of the body of a 2xx answer to a request; what the
\* endpoint computes is kept symbolic.
ResponseText(request) == [kind |-> "json", of |-> request]

\* err.message || fallback
MessageOr(msg, fallback) == IF msg = "" THEN fallback ELSE msg

\* handleInputChange that stores the value whether or not it is valid.
handleInputChangeUnchecked(idx, value) ==
    /\ tab = 0
    /\ ~loading[idx]
    /\ inputs' = [inputs EXCEPT ![idx] = value]
    /\ errors' = [errors EXCEPT ![idx] = ValidationOf[idx][value]]
    /\ UNCHANGED <<responses, loading, posts, fetchCalls, formVars, unjoined,
                   hookVars, plotVars, gen>>

\* The text field of column idx (disabled while loading[idx]) changes to
\* value: handleChange -> handleInputChange(idx, value, ...).
handleInputChange(idx, value) ==
    /\ tab = 0
    /\ ~loading[idx]
    /\ LET err == ValidationOf[idx][value]
       IN IF err = Null
             THEN /\ inputs' = [inputs EXCEPT ![idx] = value]
                  /\ errors' = [errors EXCEPT ![idx] = Null]
             ELSE /\ errors' = [errors EXCEPT ![idx] = err]
                  /\ UNCHANGED inputs
    /\ UNCHANGED <<responses, loading, posts, fetchCalls, formVars, unjoined,
                   hookVars, plotVars, gen>>

\* The value handleFormSubmit derives from the text of column idx.
SubmittedValue(idx) ==
    IF columns[idx].valueType = "int" THEN NumberValue(parseInt(inputs[idx]))
    ELSE IF columns[idx].valueType = "float" THEN NumberValue(parseFloat(inputs[idx]))
    ELSE StringValue(inputs[idx])

\* The submit button of column idx (disabled={loading[idx] || !inputs[idx]}):
\* handleSubmit -> handleFormSubmit, up to the fetch call of postValue.  When
\* the text does not parse, the error is set and loading[idx] is back to
\* false before the handler returns, and nothing is sent.
handleFormSubmit(idx) ==
    /\ tab = 0
    /\ ~loading[idx]
    /\ inputs[idx] # <<>>
    /\ responses' = [responses EXCEPT ![idx] = NoResponse]
    /\ LET value == SubmittedValue(idx)
       IN IF value.type = "number" /\ isNaN(value.num)
             THEN /\ errors' = [errors EXCEPT ![idx] =
                                   IF columns[idx].valueType = "int"
                                      THEN EnterInteger ELSE EnterReal]
                  /\ UNCHANGED <<loading, posts, fetchCalls>>
             ELSE /\ Len(posts) < MaxPosts
                  /\ loading' = [loading EXCEPT ![idx] = TRUE]
                  /\ errors' = [errors EXCEPT ![idx] = Null]
                  /\ posts' = Append(posts,
                                 [idx |-> idx, input |-> inputs[idx],
                                  request |-> postValue(columns[idx].endpoint, value),
                                  state |-> "pending", reason |-> Null])
                  /\ fetchCalls' = fetchCalls + 1
    /\ UNCHANGED <<inputs, formVars, unjoined, hookVars, plotVars, gen>>

\* The request of post k is answered with a 2xx status and a JSON body.
PostFulfilled(k) ==
    /\ k \in 1..Len(posts)
    /\ posts[k].state = "pending"
    /\ posts' = [posts EXCEPT ![k].state = "fulfilled"]
    /\ responses' = [responses EXCEPT ![posts[k].idx] = ResponseText(posts[k].request)]
    /\ loading' = [loading EXCEPT ![posts[k].idx] = FALSE]
    /\ UNCHANGED <<inputs, errors, fetchCalls, formVars, unjoined, hookVars, plotVars, gen>>

\* A catch continuation that sends the request once more after its first
\* failure.
PostRejectedRetries(k, msg) ==
    /\ k \in 1..Len(posts)
    /\ posts[k].state = "pending"
    /\ posts[k].reason = Null
    /\ posts' = [posts EXCEPT ![k].reason = msg]
    /\ fetchCalls' = fetchCalls + 1
    /\ UNCHANGED <<inputs, errors, responses, loading, formVars, unjoined,
                   hookVars, plotVars, gen>>

\* A catch continuation that shows the message as it is, empty or not.
PostRejectedShowsMessage(k, msg) ==
    /\ k \in 1..Len(posts)
    /\ posts[k].state = "pending"
    /\ posts' = [posts EXCEPT ![k].state = "rejected", ![k].reason = msg]
    /\ errors' = [errors EXCEPT ![posts[k].idx] = IF msg = "" THEN Null ELSE msg]
    /\ loading' = [loading EXCEPT ![posts[k].idx] = FALSE]
    /\ UNCHANGED <<inputs, responses, fetchCalls, formVars, unjoined, hookVars, plotVars, gen>>

\* The request of post k fails with message msg (fetch rejected, or a
\* non-2xx status and `throw new Error("API error: " + status)`): the catch
\* and finally continuations of handleFormSubmit run.
PostRejected(k, msg) ==
    /\ k \in 1..Len(posts)
    /\ posts[k].state = "pending"
    /\ posts' = [posts EXCEPT ![k].state = "rejected", ![k].reason = msg]
    /\ errors' = [errors EXCEPT ![posts[k].idx] = MessageOr(msg, NetworkError)]
    /\ loading' = [loading EXCEPT ![posts[k].idx] = FALSE]
    /\ UNCHANGED <<inputs, responses, fetchCalls, formVars, unjoined, hookVars, plotVars, gen>>

(***************************************************************************)
(* useFetch: execute(url, options) with an onLogUpdate callback            *)
(***************************************************************************)
\* The status codes an answer carries: one 2xx, one not.
Statuses == {200, 500}

ExecuteUrls == {"http://127.0.0.1:8000/double"}

\* The urls execute is called with when the hook is run on its own.
LoggedUrls ==
    {"http://127.0.0.1:8000/double", "http://127.0.0.1:8000/half",
     "http://127.0.0.1:8000/repeat"}

\* What execute throws: the rejection of fetch, the SyntaxError of res.json(),
\* new Error(`API error: ${res.status}`).
FetchFailed == "TypeError: Failed to fetch"
NotJson == "SyntaxError"
ApiError(status) == "API error: " \o ToString(status)

createRequestLog(url, method) == [method |-> method, url |-> url]

createResponseLog(status, body) == [status |-> status, body |-> body]

createLogEntry(id, request) ==
    [id |-> id, request |-> request, response |-> NoResponse,
     duration |-> NoResponse, expanded |-> FALSE]

updateLogEntry(log, response, duration) ==
    [log EXCEPT !.response = response, !.duration = duration]

\* execute, up to its fetch call.  generateId() joins Date.now() and
\* Math.random(); the ids of different calls are taken to differ and are
\* numbered in the order of the calls.
execute(url) ==
    /\ Len(execs) < MaxExecs
    /\ LET id == Len(execs) + 1
           request == createRequestLog(url, "POST")
       IN /\ logs' = Append(logs, createLogEntry(id, request))
          /\ execs' = Append(execs, [id |-> id, request |-> request,
                                     state |-> "fetching", error |-> Null])
    /\ fetchCalls' = fetchCalls + 1
    /\ UNCHANGED <<formVars, unjoined, columnVars, plotVars, gen>>

\* The fetch of call k rejects: execute throws at `await fetch(...)`.
FetchRejected(k) ==
    /\ k \in 1..Len(execs)
    /\ execs[k].state = "fetching"
    /\ execs' = [execs EXCEPT ![k].state = "threw", ![k].error = FetchFailed]
    /\ UNCHANGED <<logs, fetchCalls, formVars, unjoined, columnVars, plotVars, gen>>

\* An execute that tests res.ok before it hands the completed entry to
\* onLogUpdate.
FetchAnsweredThrowsFirst(k, status, isJson) ==
    /\ k \in 1..Len(execs)
    /\ execs[k].state = "fetching"
    /\ IF ~isJson
          THEN /\ execs' = [execs EXCEPT ![k].state = "threw", ![k].error = NotJson]
               /\ UNCHANGED logs
       ELSE IF status \notin 200..299
          THEN /\ execs' = [execs EXCEPT ![k].state = "threw",
                                          ![k].error = ApiError(status)]
               /\ UNCHANGED logs
       ELSE /\ logs' = Append(logs,
                           updateLogEntry(createLogEntry(execs[k].id, execs[k].request),
                                          createResponseLog(status, "body"),
                                          [kind |-> "ms"]))
            /\ execs' = [execs EXCEPT ![k].state = "returned"]
    /\ UNCHANGED <<fetchCalls, formVars, unjoined, columnVars, plotVars, gen>>

\* The fetch of call k is answered.  res.json() throws on a body that is not
\* JSON; otherwise the completed entry is handed to onLogUpdate, and execute
\* throws on a non-2xx status and returns the body on a 2xx status.
FetchAnswered(k, status, isJson) ==
    /\ k \in 1..Len(execs)
    /\ execs[k].state = "fetching"
    /\ IF ~isJson
          THEN /\ execs' = [execs EXCEPT ![k].state = "threw", ![k].error = NotJson]
               /\ UNCHANGED logs
          ELSE /\ logs' = Append(logs,
                              updateLogEntry(createLogEntry(execs[k].id, execs[k].request),
                                             createResponseLog(status, "body"),
                                             [kind |-> "ms"]))
               /\ execs' = IF status \in 200..299
                              THEN [execs EXCEPT ![k].state = "returned"]
                              ELSE [execs EXCEPT ![k].state = "threw",
                                                 ![k].error = ApiError(status)]
    /\ UNCHANGED <<fetchCalls, formVars, unjoined, columnVars, plotVars, gen>>

(***************************************************************************)
(* SignalGenerator (server side).  The code of the generators is not part  *)
(* of the sources; they are modelled from the specification (sections 4.1, *)
(* 6 and 7): the domain is validated first, then the N samples are         *)
(* computed one after the other, then the arrays are returned.  The y      *)
(* values of exp_cos, logistic and multi_bump are kept symbolic.           *)
(***************************************************************************)
Generators == {"linspace", "exp_cos", "logistic", "multi_bump"}

\* The sample counts N a deployment may fix; 101 is the one of the
\* end-to-end scenario.
SampleCounts == {2, 5, 101}

\* The bounds a generator is called with.
Bounds == {Num(-1), Num(0), Num(1), Frac(5, 2), NaN, Infinity}

\* No generator has been called.
NoCall ==
    [name |-> "none", x_min |-> Num(0), x_max |-> Num(0), n |-> 0,
     phase |-> "idle", x |-> <<>>, y |-> <<>>, error |-> Null]

\* The domain check that only looks for non-finite bounds.
DomainIsFinite(x_min, x_max) == IsFinite(x_min) /\ IsFinite(x_max)

\* A domain is invalid when a bound is not finite or the bounds are equal.
DomainIsValid(x_min, x_max) ==
    IsFinite(x_min) /\ IsFinite(x_max) /\ x_min # x_max

\* Sample i (from 0) of n samples that leave out x_max.
linspaceSampleOpen(x_min, x_max, n, i) ==
    JsAdd(x_min, JsMul(Num(i), JsDiv(JsSub(x_max, x_min), Num(n))))

\* Sample i (from 0) of linspace: x_min + i * (x_max - x_min) / (n - 1).
linspaceSample(x_min, x_max, n, i) ==
    JsAdd(x_min, JsMul(Num(i), JsDiv(JsSub(x_max, x_min), Num(n - 1))))

\* y[i] of a generator with y: the function of the generator applied to x[i].
ySample(name, x) == [f |-> name, at |-> x]

\* A generator is called with the request {x_min, x_max}.
CallGenerator(name, x_min, x_max, n) ==
    /\ gen = NoCall
    /\ gen' = [name |-> name, x_min |-> x_min, x_max |-> x_max, n |-> n,
               phase |-> "called", x |-> <<>>, y |-> <<>>, error |-> Null]
    /\ UNCHANGED <<formVars, unjoined, fetchCalls, columnVars, hookVars, plotVars>>

\* The domain is checked.  For x_min > x_max the specification leaves the
\* policy to the implementer: reject, swap the bounds, or generate as given.
ValidateDomain(policy) ==
    /\ gen.phase = "called"
    /\ IF ~DomainIsValid(gen.x_min, gen.x_max)
          THEN gen' = [gen EXCEPT !.phase = "failed", !.error = "InvalidDomain"]
       ELSE IF JsLt(gen.x_max, gen.x_min) /\ policy = "reject"
          THEN gen' = [gen EXCEPT !.phase = "failed", !.error = "InvalidDomain"]
       ELSE IF JsLt(gen.x_max, gen.x_min) /\ policy = "swap"
          THEN gen' = [gen EXCEPT !.phase = "computing",
                                  !.x_min = gen.x_max, !.x_max = gen.x_min]
       ELSE gen' = [gen EXCEPT !.phase = "computing"]
    /\ UNCHANGED <<formVars, unjoined, fetchCalls, columnVars, hookVars, plotVars>>

\* The next sample is computed.
ComputeSample ==
    /\ gen.phase = "computing"
    /\ Len(gen.x) < gen.n
    /\ LET x == linspaceSample(gen.x_min, gen.x_max, gen.n, Len(gen.x))
       IN gen' = [gen EXCEPT !.x = Append(gen.x, x),
                             !.y = IF gen.name = "linspace" THEN <<>>
                                   ELSE Append(gen.y, ySample(gen.name, x))]
    /\ UNCHANGED <<formVars, unjoined, fetchCalls, columnVars, hookVars, plotVars>>

\* All samples are computed: the arrays are returned.
ReturnArrays ==
    /\ gen.phase = "computing"
    /\ Len(gen.x) = gen.n
    /\ gen' = [gen EXCEPT !.phase = "returned"]
    /\ UNCHANGED <<formVars, unjoined, fetchCalls, columnVars, hookVars, plotVars>>

(***************************************************************************)
(* The data a render call is checked on                                    *)
(***************************************************************************)
MaxSamples == 3      \* samples of an arbitrary data prop, over all its series
MaxPoints == 45      \* samples of the one long series
MaxLegend == 6       \* series of a data prop that cycles through the palette

\* The sample values and the numbers of series of an arbitrary data prop
\* (props of more series are the LegendData).
XValues == {0, 3}
YValues == {-1, 2}
SeriesCounts == 0..2

SeriesLabel(i) == "series" \o ToString(i)

\* The shape of a data prop of k series: the number of samples of each
\* series and whether it has a y array.
Shapes(k) == [1..k -> [n : 0..MaxSamples, hasY : BOOLEAN]]

RECURSIVE SamplesUpTo(_, _)
\* The samples of the first i series of a shape.
SamplesUpTo(shape, i) ==
    IF i = 0 THEN 0 ELSE SamplesUpTo(shape, i - 1) + shape[i].n

RECURSIVE YSamplesUpTo(_, _)
\* The samples of those of the first i series of a shape that have y.
YSamplesUpTo(shape, i) ==
    IF i = 0 THEN 0
    ELSE YSamplesUpTo(shape, i - 1) + (IF shape[i].hasY THEN shape[i].n ELSE 0)

\* The data prop of a shape whose x values are xs and whose y values are ys,
\* both listed series after series.
SmallData(shape, xs, ys) ==
    [i \in 1..Len(shape) |->
        [label |-> SeriesLabel(i),
         x |-> [j \in 1..shape[i].n |-> xs[SamplesUpTo(shape, i - 1) + j]],
         hasY |-> shape[i].hasY,
         y |-> IF shape[i].hasY
                  THEN [j \in 1..shape[i].n |-> ys[YSamplesUpTo(shape, i - 1) + j]]
                  ELSE <<>>]]

\* One series of n samples on an ascending grid.
LongData(n) ==
    <<[label |-> SeriesLabel(1),
       x |-> [j \in 1..n |-> j - 1], hasY |-> TRUE,
       y |-> [j \in 1..n |-> (j * j) % 7]]>>

\* k two-sample series, those of withY with a y array.
LegendData(k, withY) ==
    [i \in 1..k |-> [label |-> SeriesLabel(i), x |-> <<i % 3, 4>>,
                     hasY |-> i \in withY,
                     y |-> IF i \in withY THEN <<i % 3, 2>> ELSE <<>>]]

\* The data props a render call is checked on: every prop of at most two
\* series and MaxSamples samples over XValues and YValues, one long series of
\* every length up to MaxPoints, and up to MaxLegend short series.
PlotInput(ds) ==
    \/ \E k \in SeriesCounts : \E shape \in Shapes(k) :
          /\ SamplesUpTo(shape, k) <= MaxSamples
          /\ \E xs \in [1..SamplesUpTo(shape, k) -> XValues],
                ys \in [1..YSamplesUpTo(shape, k) -> YValues] :
                ds = SmallData(shape, xs, ys)
    \/ \E n \in 0..MaxPoints : ds = LongData(n)
    \/ \E k \in 0..MaxLegend : \E withY \in SUBSET (1..k) : ds = LegendData(k, withY)

InitForm ==
    /\ tab = 0
    /\ plotData = NoPlotData
    /\ plotLoading = FALSE
    /\ plotError = Null
    /\ xMin = 0
    /\ xMax = 1
    /\ batches = <<>>
    /\ unjoined = 0
    /\ fetchCalls = 0

InitColumns ==
    /\ inputs = [idx \in ColumnIdx |-> <<>>]
    /\ responses = [idx \in ColumnIdx |-> NoResponse]
    /\ loading = [idx \in ColumnIdx |-> FALSE]
    /\ errors = [idx \in ColumnIdx |-> Null]
    /\ posts = <<>>

InitHook ==
    /\ execs = <<>>
    /\ logs = <<>>

InitGenIdle == gen = NoCall

InitPlotIdle ==
    /\ data = <<>>
    /\ svg = NotRendered

Init == InitForm /\ InitColumns /\ InitHook /\ InitGenIdle /\ InitPlotIdle

Next ==
    \/ \E v \in {0, 1} : SetTab(v)
    \/ \E v \in DomainValues : SetXMin(v)
    \/ \E v \in DomainValues : SetXMax(v)
    \/ ClickRun
    \/ \E b \in 1..MaxBatches : RequestFulfilled(b)
    \/ \E b \in 1..MaxBatches, msg \in FailureMessages : RequestRejected(b, msg)
    \/ LateRequestRejected

Spec == Init /\ [][Next]_vars

\* SimplePlot on its own: one data prop, one render call.
InitPlot ==
    /\ InitForm /\ InitColumns /\ InitHook /\ InitGenIdle
    /\ PlotInput(data)
    /\ svg = NotRendered

NextPlot ==
    \/ RenderMinimal
    \/ \E theme \in {Null, "modern"} : RenderModern(theme)

SpecPlot == InitPlot /\ [][NextPlot]_vars

\* The form columns on their own (the DemoForm without tabs): any of the
\* texts may be typed into a column.
NextForm ==
    \/ \E idx \in ColumnIdx : \E value \in Texts(idx) : handleInputChange(idx, value)
    \/ \E idx \in ColumnIdx : handleFormSubmit(idx)
    \/ \E k \in 1..MaxPosts : PostFulfilled(k)
    \/ \E k \in 1..MaxPosts, msg \in PostFailureMessages : PostRejected(k, msg)

SpecForm == Init /\ [][NextForm]_vars

\* The batches, posts and execute calls issued so far.
Calls == Len(batches) + Len(posts) + Len(execs)

\* Everything of the client that calls fetch: the plot tab with the domain
\* left at its initial value, the form columns with the accepted texts, and
\* a component that calls execute of useFetch.
NextClient ==
    \/ \E v \in {0, 1} : (v = 1 => Calls < MaxCalls) /\ SetTab(v)
    \/ Calls < MaxCalls /\ ClickRun
    \/ \E b \in 1..MaxBatches : RequestFulfilled(b)
    \/ \E b \in 1..MaxBatches, msg \in FailureMessages : RequestRejected(b, msg)
    \/ LateRequestRejected
    \/ \E idx \in ColumnIdx : \E value \in AcceptedTexts(idx) : handleInputChange(idx, value)
    \/ \E idx \in ColumnIdx : Calls < MaxCalls /\ handleFormSubmit(idx)
    \/ \E k \in 1..MaxPosts : PostFulfilled(k)
    \/ \E k \in 1..MaxPosts, msg \in PostFailureMessages : PostRejected(k, msg)
    \/ \E url \in ExecuteUrls : Calls < MaxCalls /\ execute(url)
    \/ \E k \in 1..MaxExecs : FetchRejected(k)
    \/ \E k \in 1..MaxExecs, status \in Statuses, isJson \in BOOLEAN :
          FetchAnswered(k, status, isJson)

SpecClient == Init /\ [][NextClient]_vars

\* The useFetch hook on its own.
NextLog ==
    \/ \E url \in LoggedUrls : execute(url)
    \/ \E k \in 1..MaxExecs : FetchRejected(k)
    \/ \E k \in 1..MaxExecs, status \in Statuses, isJson \in BOOLEAN :
          FetchAnswered(k, status, isJson)

\* The fetch of every call settles: the browser answers it or rejects it.
FetchSettles(k) ==
    FetchRejected(k) \/ \E status \in Statuses, isJson \in BOOLEAN :
                           FetchAnswered(k, status, isJson)

SpecLog ==
    Init /\ [][NextLog]_vars /\ \A k \in 1..MaxExecs : WF_vars(FetchSettles(k))

\* One call of a generator, from the request to the answer.
NextGen ==
    \/ \E name \in Generators, x_min \in Bounds, x_max \in Bounds, n \in SampleCounts :
          CallGenerator(name, x_min, x_max, n)
    \/ \E policy \in {"reject", "swap", "keep"} : ValidateDomain(policy)
    \/ ComputeSample
    \/ ReturnArrays

SpecGen == Init /\ [][NextGen]_vars

(***************************************************************************)
(* Properties of the plot tab (checked under Spec)                         *)
(***************************************************************************)
Batches == 1..Len(batches)

\* C1: plotData is null or exactly the four series (linspace, exp_cos,
\* logistic, multi_bump) of one batch all of whose four requests have been
\* answered, so SimplePlot is never handed the series of a batch that still
\* has a request pending.
PlotDataIsOneCompleteBatch ==
    /\ plotData # NoPlotData =>
          /\ Len(plotData) = 4
          /\ \A i \in 1..4 : plotData[i].label = Labels[i]
          /\ \E b \in Batches :
                /\ batches[b].state = "fulfilled"
                /\ batches[b].waiting = 0
                /\ plotData = JoinedSeries(b)
    /\ \A b \in Batches :
          batches[b].waiting > 0 => plotData # JoinedSeries(b)

\* A chart of a complete batch is on screen while a later batch has some but
\* not all of its answers.
CompleteBatchShownWhileNextPartial ==
    /\ RenderedPlot # NoPlotData
    /\ \E b \in Batches :
          /\ batches[b].state = "pending"
          /\ batches[b].waiting \in 1..3

\* C2: the step in which a request of a batch fails leaves plotData as it was
\* and sets plotError to the failure message (to 'API error' when the message
\* is empty), and a batch that has failed is never the one plotData shows.
FailedBatchKeepsPlotData ==
    [][\A b \in Batches :
          /\ (batches[b].state = "pending" /\ batches'[b].state = "rejected") =>
                /\ plotData' = plotData
                /\ plotError' # Null
                /\ plotError' # ""
                /\ batches'[b].reason # "" => plotError' = batches'[b].reason
          /\ batches[b].state = "rejected" =>
                /\ plotData' = plotData \/ plotData' # JoinedSeries(b)
                /\ plotData # JoinedSeries(b)]_vars

\* A batch has failed after an earlier one was rendered: the earlier chart is
\* still there and the failure message is shown.
FailedBatchAfterRenderedBatch ==
    \E b \in Batches, a \in Batches :
        /\ a < b
        /\ batches[b].state = "rejected"
        /\ plotData = JoinedSeries(a)
        /\ plotError = ErrorText(batches[b].reason)

\* C11: the Domain invariant holds for every request the client issues:
\* whatever the x_min / x_max fields were set to and however the tabs were
\* switched and the run button clicked, no batch of requests produced by
\* fetchAndSetPlotData carries x_min = x_max.
NoRequestWithEqualBounds ==
    \A b \in Batches : batches[b].x_min # batches[b].x_max

\* C18: the tab-change effect calls fetchAndSetPlotData only the first time
\* tab 2 is opened: a step that returns to tab 2 after a batch has been issued
\* (tab 2 has been open before) issues no further batch.
TabEffectFetchesOnlyOnce ==
    [][(tab # 1 /\ tab' = 1 /\ Len(batches) > 0) =>
          (batches' = batches /\ fetchCalls' = fetchCalls)]_vars

\* C22: plotLoading is true in every state in which at least one batch of
\* fetchAndSetPlotData is still in flight, also when a second batch was
\* started by a tab switch while an earlier one is pending.
LoadingWhileAnyBatchInFlight ==
    (\E b \in Batches : batches[b].state = "pending") => plotLoading

\* The last fulfilled batch in the order the batches were issued (0: none).
LatestFulfilled ==
    LET F == {b \in Batches : batches[b].state = "fulfilled"}
    IN IF F = {} THEN 0 ELSE CHOOSE b \in F : \A a \in F : a <= b

\* C23: once every issued batch has settled, plotData holds the series of
\* the most recently issued successful batch, whatever the order in which the
\* answers of overlapping batches arrived.
LatestBatchWins ==
    (/\ \A b \in Batches : batches[b].state # "pending"
     /\ LatestFulfilled # 0)
       => plotData = JoinedSeries(LatestFulfilled)

\* C24: whenever plotData is not null its four series (linspace, exp_cos,
\* logistic, multi_bump, in that order) answer the four requests of one and
\* the same batch, that is, requests with one and the same (x_min, x_max),
\* also when the fields were edited or further batches were started while the
\* requests were pending.
SeriesShareOneRequestPair ==
    plotData # NoPlotData =>
        \E b \in Batches :
            \A i \in ReqIdx :
                /\ plotData[i].label = Labels[i]
                /\ plotData[i].x.of.endpoint = Endpoints[i]
                /\ plotData[i].x.of.batch = b
                /\ plotData[i].x.of.x_min = batches[b].x_min
                /\ plotData[i].x.of.x_max = batches[b].x_max
                /\ plotData[i].y.of = plotData[i].x.of

\* The chart of a batch is shown although the fields have been edited since
\* and a later batch with other bounds was started before it was complete.
ChartOfOlderRequestPair ==
    /\ plotData # NoPlotData
    /\ <<plotData[1].x.of.x_min, plotData[1].x.of.x_max>> # <<xMin, xMax>>
    /\ \E a \in Batches, b \in Batches :
          /\ a < b
          /\ plotData = JoinedSeries(a)
          /\ <<batches[a].x_min, batches[a].x_max>> # <<batches[b].x_min, batches[b].x_max>>

(***************************************************************************)
(* Properties of the whole client (checked under SpecClient)               *)
(***************************************************************************)
Posts == 1..Len(posts)

\* Batch b, or post k, fails in this step: its join, or its request, was
\* pending and is rejected.
BatchFails(b) == batches[b].state = "pending" /\ batches'[b].state = "rejected"
PostFails(k) == posts[k].state = "pending" /\ posts'[k].state = "rejected"

\* C12 as it is stated: every failure of a request issued by
\* fetchAndSetPlotData or handleFormSubmit leaves the error slot (plotError,
\* errors[idx]) non-null, whichever request of a batch it is that fails.
EveryRequestFailureSetsErrorSlot ==
    [][/\ ((\E b \in Batches : BatchFails(b)) \/ unjoined' < unjoined) =>
             (plotError' # Null /\ plotError' # "")
       /\ \A k \in Posts : PostFails(k) =>
             (errors'[posts[k].idx] # Null /\ errors'[posts[k].idx] # "")]_vars

\* C12: the failure that rejects a pending join of fetchAndSetPlotData (the
\* first of its requests to fail) sets plotError, and the failure of a
\* handleFormSubmit request sets errors[idx], to the message of the failure,
\* or to 'API error' (resp. the communication-error text) when the message is
\* empty; the slot is never left null and loading is switched off.  A later
\* failure of another request of the same batch reaches no handler and leaves
\* plotError as it is.
SettlingFailureSetsErrorSlot ==
    [][/\ \A b \in Batches : BatchFails(b) =>
             /\ plotError' # Null /\ plotError' # ""
             /\ plotError' = (IF batches'[b].reason = "" THEN "API error"
                                                         ELSE batches'[b].reason)
             /\ ~plotLoading'
       /\ \A k \in Posts : PostFails(k) =>
             /\ errors'[posts[k].idx] # Null /\ errors'[posts[k].idx] # ""
             /\ errors'[posts[k].idx] = (IF posts'[k].reason = "" THEN NetworkError
                                                                  ELSE posts'[k].reason)
             /\ ~loading'[posts[k].idx]
       /\ unjoined' < unjoined => plotError' = plotError]_vars

\* A batch and a post have both failed with an empty message and both
\* fallback texts are on display.
BothFallbackTextsShown ==
    \E b \in Batches, k \in Posts :
        /\ batches[b].state = "rejected" /\ batches[b].reason = ""
        /\ posts[k].state = "rejected" /\ posts[k].reason = ""
        /\ plotError = "API error"
        /\ errors[posts[k].idx] = NetworkError

\* C13: no automatic retry.  A call of fetchAndSetPlotData (tab change to
\* tab 2, run click) calls fetch exactly four times, a call of
\* handleFormSubmit or of execute at most once, and fetch is called in no
\* other step: not when a request is answered or fails.  So the number of
\* fetch calls is always four per batch, one per post and one per execute
\* call.
NoAutomaticRetry ==
    [][/\ ((tab' = 1 /\ SetTab(1)) \/ ClickRun) =>
             (fetchCalls' = fetchCalls + 4 /\ Len(batches') = Len(batches) + 1)
       /\ \A idx \in ColumnIdx : handleFormSubmit(idx) =>
             (fetchCalls' - fetchCalls \in {0, 1}
              /\ Len(posts') - Len(posts) = fetchCalls' - fetchCalls)
       /\ \A url \in ExecuteUrls : execute(url) => fetchCalls' = fetchCalls + 1
       /\ fetchCalls' # fetchCalls =>
             \/ SetTab(1) \/ ClickRun
             \/ \E idx \in ColumnIdx : handleFormSubmit(idx)
             \/ \E url \in ExecuteUrls : execute(url)
       /\ ((\E b \in Batches : BatchFails(b)) \/ (\E k \in Posts : PostFails(k))
           \/ unjoined' < unjoined
           \/ (\E k \in 1..Len(execs) : execs'[k].state = "threw" /\ execs[k].state # "threw")) =>
             /\ fetchCalls' = fetchCalls
             /\ Len(batches') = Len(batches) /\ Len(posts') = Len(posts)
             /\ Len(execs') = Len(execs)
       /\ fetchCalls' = 4 * Len(batches') + Len(posts') + Len(execs')]_vars

\* A batch and a post have both failed and fetch has been called five times:
\* four times for the batch, once for the post.
FailedBatchAndPostWithoutRetry ==
    \E b \in Batches, k \in Posts :
        /\ batches[b].state = "rejected"
        /\ posts[k].state = "rejected"
        /\ fetchCalls = 5

(***************************************************************************)
(* Properties of the form columns (checked under SpecForm)                 *)
(***************************************************************************)
\* C17: every request handleFormSubmit has sent goes to the endpoint of its
\* column with a body {value} whose value has the documented type: an
\* integer for /double, a finite real number for /half, the unmodified text
\* of the field for /repeat.
PostedValueHasDocumentedType ==
    \A k \in Posts :
        LET sent == posts[k].request
            value == sent.body.value
        IN /\ sent.url = "http://127.0.0.1:8000" \o columns[posts[k].idx].endpoint
           /\ posts[k].idx = 0 =>
                 (value.json = "number" /\ IsFinite(value.num) /\ value.num.d = 1)
           /\ posts[k].idx = 1 => (value.json = "number" /\ IsFinite(value.num))
           /\ posts[k].idx = 2 => (value.json = "string" /\ value.str = posts[k].input)

\* An optionally signed, non-empty run of decimal digits.
IsSignedDecimal(s) ==
    LET ds == IF s # <<>> /\ Head(s) = "-" THEN Tail(s) ELSE s
    IN ds # <<>> /\ \A i \in 1..Len(ds) : ds[i] \in {"0", "1", "2", "3", "4", "5", "6", "7", "8", "9"}

\* C19: the stored input of the integer column is the empty string or an
\* optionally signed decimal integer (^-?\d+$), and the stored input of no
\* column fails validateInput.
IntegerColumnHoldsSignedDecimal ==
    /\ inputs[0] = <<>> \/ IsSignedDecimal(inputs[0])
    /\ \A idx \in ColumnIdx : validateInput(inputs[idx], columns[idx].valueType) = Null

\* The integer column holds a signed integer and shows the validation message
\* of a text that was typed afterwards and not stored.
RejectedTextNotStored ==
    /\ inputs[0] = <<"-", "1", "2">>
    /\ errors[0] = IntegersOnly

\* C20: a step of handleInputChange(idx, value) with a value validateInput
\* rejects leaves inputs unchanged and sets errors[idx] to the validation
\* message; with an accepted value it sets inputs[idx] to the value and
\* errors[idx] to null; in both cases inputs and errors at the other indices,
\* and responses, loading and the requests sent, are unchanged.
InputChangeTouchesOneColumn ==
    [][\A idx \in ColumnIdx : \A value \in Texts(idx) :
          handleInputChange(idx, value) =>
             LET message == ValidationOf[idx][value]
             IN /\ message # Null =>
                      /\ inputs' = inputs
                      /\ errors'[idx] = message
                      /\ message \in {IntegersOnly, RealsOnly}
                /\ message = Null =>
                      /\ inputs'[idx] = value
                      /\ errors'[idx] = Null
                /\ \A j \in ColumnIdx \ {idx} :
                      inputs'[j] = inputs[j] /\ errors'[j] = errors[j]
                /\ responses' = responses
                /\ loading' = loading
                /\ posts' = posts]_vars

\* A rejected text was typed into a column that holds an accepted one, while
\* another column shows the response to its request.
RejectedTextBesideResponse ==
    \E idx \in ColumnIdx, j \in ColumnIdx :
        /\ idx # j
        /\ inputs[idx] # <<>>
        /\ errors[idx] \in {IntegersOnly, RealsOnly}
        /\ responses[j] # NoResponse

\* C25: for every column idx, responses[idx] and errors[idx] are never both
\* non-null: a column never shows the success alert and the error alert at
\* the same time.
NeverBothAlerts ==
    \A idx \in ColumnIdx : responses[idx] = NoResponse \/ errors[idx] = Null

\* C26: validation and submission agree on the float column: a stored,
\* non-empty float input (one validateInput accepted) is converted by
\* handleFormSubmit to a number that is not NaN and equals Number(value), so
\* the column never shows the local "enter a real number" error and every
\* number sent is the one that was validated.
FloatValidationAgreesWithSubmission ==
    /\ inputs[1] # <<>> =>
          /\ validateInput(inputs[1], "float") = Null
          /\ ~isNaN(parseFloat(inputs[1]))
          /\ parseFloat(inputs[1]) = Number(inputs[1])
    /\ errors[1] # EnterReal
    /\ \A k \in Posts :
          posts[k].idx = 1 =>
             posts[k].request.body.value =
                JSONstringify(NumberValue(Number(posts[k].input)))

(***************************************************************************)
(* Properties of useFetch (checked under SpecLog)                          *)
(***************************************************************************)
\* The positions of the log entries of call k, pending and completed.
PendingEntries(k) ==
    {j \in 1..Len(logs) : logs[j].id = execs[k].id /\ logs[j].response = NoResponse}
CompletedEntries(k) ==
    {j \in 1..Len(logs) : logs[j].id = execs[k].id /\ logs[j].response # NoResponse}

\* C21: for each call of execute, onLogUpdate is given one pending entry
\* (response null, duration null, expanded false) no later than the request
\* is sent, and, once the body of the answer has been read, exactly one more
\* entry with the same id and request that carries the response and the
\* duration; when execute has thrown 'API error: <status>' that completed
\* entry has already been given.  No other entry is ever given.
LogEntriesFollowTheCall ==
    /\ \A j \in 1..Len(logs) : \E k \in 1..Len(execs) : logs[j].id = execs[k].id
    /\ \A k \in 1..Len(execs) :
          /\ Cardinality(PendingEntries(k)) = 1
          /\ \A p \in PendingEntries(k) :
                /\ logs[p] = createLogEntry(execs[k].id, execs[k].request)
                /\ logs[p].duration = NoResponse
                /\ logs[p].expanded = FALSE
                /\ \A c \in CompletedEntries(k) :
                      /\ p < c
                      /\ logs[c].request = logs[p].request
                      /\ logs[c].duration # NoResponse
                      /\ logs[c].expanded = FALSE
          /\ Cardinality(CompletedEntries(k)) <= 1
          /\ execs[k].state = "fetching" => CompletedEntries(k) = {}
          /\ execs[k].error \in {FetchFailed, NotJson} => CompletedEntries(k) = {}
          /\ execs[k].state = "returned" =>
                \E c \in CompletedEntries(k) : logs[c].response.status \in 200..299
          /\ \A status \in Statuses :
                execs[k].error = ApiError(status) =>
                   /\ status \notin 200..299
                   /\ \E c \in CompletedEntries(k) : logs[c].response.status = status

\* A call has thrown 'API error: 500' after its completed entry was given,
\* while the entries of a second call lie in between and that call returned.
ApiErrorAfterCompletedEntry ==
    \E k \in 1..Len(execs), m \in 1..Len(execs) :
        /\ k # m
        /\ execs[k].error = ApiError(500)
        /\ execs[m].state = "returned"
        /\ \E p \in PendingEntries(k), c \in CompletedEntries(k), q \in PendingEntries(m) :
              p < q /\ q < c

\* C27: every pending log entry given by execute is eventually followed by a
\* completed entry with the same id, whatever the outcome of the request
\* (2xx, non-2xx, rejected fetch, a body that is not JSON).
PendingEntryIsEventuallyCompleted ==
    \A k \in 1..MaxExecs :
        (k <= Len(execs) /\ PendingEntries(k) # {})
           ~> (k <= Len(execs) /\ CompletedEntries(k) # {})

(***************************************************************************)
(* Properties of the generators (checked under SpecGen)                    *)
(***************************************************************************)
\* C14: a generator called with x_min = x_max fails with InvalidDomain and
\* returns no array, and the check comes before the first sample: in no state
\* of such a call is any sample computed.  The same holds for every call
\* that fails.
EqualBoundsFailBeforeSampling ==
    /\ (gen.phase # "idle" /\ gen.x_min = gen.x_max) =>
          /\ gen.phase \in {"called", "failed"}
          /\ gen.x = <<>> /\ gen.y = <<>>
    /\ gen.phase = "failed" =>
          /\ gen.error = "InvalidDomain"
          /\ gen.x = <<>> /\ gen.y = <<>>
    /\ gen.phase \in {"computing", "returned"} => gen.error = Null

\* A generator with y was called with equal finite bounds and has failed.
EqualBoundsRejected ==
    /\ gen.name = "exp_cos"
    /\ gen.x_min = Num(1) /\ gen.x_max = Num(1)
    /\ gen.phase = "failed"
    /\ gen.error = "InvalidDomain"

\* C15: for x_min < x_max linspace returns exactly N samples with
\* x[0] = x_min, x[N-1] = x_max, the constant spacing (x_max - x_min)/(N-1)
\* and strictly increasing values; for {x_min: 0, x_max: 1} and N = 101 the
\* samples are 0, 0.01, 0.02, ..., 1.
LinspaceIsEvenAndInclusive ==
    (gen.phase = "returned" /\ JsLt(gen.x_min, gen.x_max)) =>
        /\ Len(gen.x) = gen.n
        /\ gen.x[1] = gen.x_min
        /\ gen.x[gen.n] = gen.x_max
        /\ \A i \in 1..(gen.n - 1) :
              /\ JsLt(gen.x[i], gen.x[i + 1])
              /\ JsSub(gen.x[i + 1], gen.x[i]) =
                    JsDiv(JsSub(gen.x_max, gen.x_min), Num(gen.n - 1))
        /\ (gen.x_min = Num(0) /\ gen.x_max = Num(1) /\ gen.n = 101) =>
              \A i \in 1..101 : gen.x[i] = Frac(i - 1, 100)
        /\ gen.name = "linspace" => gen.y = <<>>
        /\ gen.name # "linspace" => Len(gen.y) = gen.n

\* linspace has returned the 101 samples of the domain [0, 1].
LinspaceOfUnitDomainReturned ==
    /\ gen.name = "linspace"
    /\ gen.phase = "returned"
    /\ gen.x_min = Num(0) /\ gen.x_max = Num(1)
    /\ Len(gen.x) = 101
    /\ gen.x[2] = Frac(1, 100)
    /\ gen.x[101] = Num(1)

(***************************************************************************)
(* Properties of SimplePlot (checked under SpecPlot)                       *)
(***************************************************************************)
Rendered == svg.kind = "svg"

\* The geometry of the renderer that produced the drawing.
GeometryOf(drawing) ==
    IF drawing.renderer = "minimal" THEN MinimalGeometry ELSE ModernGeometry

DegenerateX(e) == IsFinite(e.minX) /\ e.maxX = e.minX
DegenerateY(e) == IsFinite(e.minY) /\ e.maxY = e.minY
NonDegenerateX(e) == IsFinite(e.minX) /\ IsFinite(e.maxX) /\ JsLt(e.minX, e.maxX)
NonDegenerateY(e) == IsFinite(e.minY) /\ IsFinite(e.maxY) /\ JsLt(e.minY, e.maxY)

\* The numbers of the half-integers lo, lo + 1/2, ..., hi between two integral
\* bounds of an extent: v stands for v/2.
Probes(lo, hi) == (2 * lo.n)..(2 * hi.n)

JsLeq(a, b) == a = b \/ JsLt(a, b)

DrawnSeries == {i \in 1..Len(data) : data[i].hasY}

\* Every coordinate of every polyline vertex of the drawing.
VertexCoordinates ==
    UNION {{svg.series[i].polyline.points[j][c] :
               j \in 1..Len(svg.series[i].polyline.points), c \in 1..2} :
              i \in {k \in 1..Len(svg.series) : svg.series[k] # Nothing}}

\* C3: for a degenerate extent (maxX = minX, or maxY = minY) the scale uses
\* the denominator 1: scaleX maps the sole value to padding, scaleY maps it to
\* height - padding, and no coordinate of the drawing is NaN or infinite.
DegenerateExtentMapsToPadding ==
    Rendered =>
        LET g == GeometryOf(svg)
            e == Extent(data)
        IN /\ DegenerateX(e) => scaleX(g, e, e.minX) = Num(g.padding)
           /\ DegenerateY(e) => scaleY(g, e, e.minY) = Num(g.height - g.padding)
           /\ (DegenerateX(e) \/ DegenerateY(e)) =>
                 \A v \in VertexCoordinates : IsFinite(v)

\* C4: for a non-degenerate X extent scaleX(minX) = padding and
\* scaleX(maxX) = width - padding - legendWidth (legendWidth = 0 in the
\* minimal renderer), and between them scaleX is affine (equal steps of the
\* value give equal steps of the image) and non-decreasing.
ScaleXSpansPlotWidth ==
    (Rendered /\ NonDegenerateX(Extent(data))) =>
        LET g == GeometryOf(svg)
            e == Extent(data)
            P == Probes(e.minX, e.maxX)
            sx == [v \in P |-> scaleX(g, e, Frac(v, 2))]
        IN /\ scaleX(g, e, e.minX) = Num(g.padding)
           /\ scaleX(g, e, e.maxX) = Num(g.width - g.padding - g.legendWidth)
           /\ Num(g.width - g.padding - g.legendWidth) =
                 (IF svg.renderer = "minimal" THEN Num(370) ELSE Num(640))
           /\ \A v \in P :
                 /\ IsFinite(sx[v])
                 /\ v + 1 \in P => JsLeq(sx[v], sx[v + 1])
                 /\ v + 2 \in P =>
                       JsSub(sx[v + 2], sx[v + 1]) = JsSub(sx[v + 1], sx[v])

\* The modern renderer drew a polyline with a vertex on the right edge of the
\* plot area and a vertex strictly inside it.
PolylineSpansPlotWidth ==
    /\ Rendered
    /\ svg.renderer = "modern"
    /\ NonDegenerateX(Extent(data))
    /\ \E i \in DrawnSeries :
          \E j \in 1..Len(data[i].x), k \in 1..Len(data[i].x) :
             /\ svg.series[i].polyline.points[j][1] = Num(640)
             /\ JsLt(Num(40), svg.series[i].polyline.points[k][1])
             /\ JsLt(svg.series[i].polyline.points[k][1], Num(640))

\* C5: scaleY is inverted: for a non-degenerate Y extent
\* scaleY(minY) = height - padding, scaleY(maxY) = padding, and a < b implies
\* scaleY(a) > scaleY(b).
ScaleYIsInverted ==
    (Rendered /\ NonDegenerateY(Extent(data))) =>
        LET g == GeometryOf(svg)
            e == Extent(data)
            P == Probes(e.minY, e.maxY)
            sy == [v \in P |-> scaleY(g, e, Frac(v, 2))]
        IN /\ scaleY(g, e, e.minY) = Num(g.height - g.padding)
           /\ scaleY(g, e, e.maxY) = Num(g.padding)
           /\ \A a \in P, b \in P : a < b => JsLt(sy[b], sy[a])

\* A polyline was drawn that has a vertex on the top and a vertex on the
\* bottom of the plot area.
PolylineSpansPlotHeight ==
    /\ Rendered
    /\ NonDegenerateY(Extent(data))
    /\ \E i \in DrawnSeries :
          \E j \in 1..Len(data[i].x), k \in 1..Len(data[i].x) :
             /\ data[i].y[j] < data[i].y[k]
             /\ svg.series[i].polyline.points[j][2] = Num(GeometryOf(svg).height - GeometryOf(svg).padding)
             /\ svg.series[i].polyline.points[k][2] = Num(GeometryOf(svg).padding)

\* C6: a render call returns a drawing (it does not throw) that holds, for
\* each series with a y array, exactly one polyline whose vertices are
\* (scaleX(x[j]), scaleY(y[j])) for the samples j in order, and holds nothing
\* (no polyline, no point marker) for a series without y.
OnePolylinePerSeriesWithY ==
    /\ svg # TypeError
    /\ Rendered =>
          LET g == GeometryOf(svg)
              e == Extent(data)
          IN /\ Len(svg.series) = Len(data)
             /\ \A i \in 1..Len(data) :
                   IF data[i].hasY
                      THEN /\ svg.series[i] # Nothing
                           /\ Len(svg.series[i].polyline.points) = Len(data[i].x)
                           /\ \A j \in 1..Len(data[i].x) :
                                 svg.series[i].polyline.points[j] =
                                    <<scaleX(g, e, Num(data[i].x[j])),
                                      scaleY(g, e, Num(data[i].y[j]))>>
                      ELSE svg.series[i] = Nothing

\* The modern renderer drew a list holding a series of several samples with
\* y and a series with samples but without y.
RenderedWithAndWithoutY ==
    /\ Rendered
    /\ svg.renderer = "modern"
    /\ \E i \in 1..Len(data), k \in 1..Len(data) :
          /\ data[i].hasY /\ Len(data[i].x) >= 2
          /\ ~data[k].hasY /\ Len(data[k].x) >= 1
          /\ svg.series[k] = Nothing
          /\ Len(svg.series[i].polyline.points) >= 2

SetMin(S) == CHOOSE m \in S : \A v \in S : m <= v
SetMax(S) == CHOOSE m \in S : \A v \in S : v <= m

\* The x values of all series, and the y values of the series that have y.
XValuesOf(ds) == UNION {{ds[i].x[j] : j \in 1..Len(ds[i].x)} : i \in 1..Len(ds)}
YValuesOf(ds) ==
    UNION {{ds[i].y[j] : j \in 1..Len(ds[i].y)} : i \in {k \in 1..Len(ds) : ds[k].hasY}}

\* C7: the extent of a render call is the min/max over all series passed to
\* it: minX/maxX over the x values of every series (those without y
\* included), minY/maxY over the y values of every series that has y, and
\* 0 and 1 when no series has y.
ExtentIsMinMaxOverAllSeries ==
    Rendered =>
        LET e == Extent(data)
        IN /\ XValuesOf(data) # {} =>
                 /\ e.minX = Num(SetMin(XValuesOf(data)))
                 /\ e.maxX = Num(SetMax(XValuesOf(data)))
           /\ YValuesOf(data) # {} =>
                 /\ e.minY = Num(SetMin(YValuesOf(data)))
                 /\ e.maxY = Num(SetMax(YValuesOf(data)))
           /\ (\A i \in 1..Len(data) : ~data[i].hasY) =>
                 /\ e.minY = Num(0)
                 /\ e.maxY = Num(1)

\* A rendered list in which a series without y holds the smallest x and a
\* series with y holds a larger one.
SeriesWithoutYSetsMinX ==
    /\ Rendered
    /\ \E i \in 1..Len(data), k \in 1..Len(data) :
          /\ ~data[i].hasY /\ Len(data[i].x) > 0
          /\ data[k].hasY /\ Len(data[k].x) > 0
          /\ \A j \in 1..Len(data[k].x) : data[i].x[1] < data[k].x[j]
          /\ Extent(data).minX = Num(data[i].x[1])

\* C8: the legend has one entry per series passed to the renderer, with or
\* without y, and the colour of the series at 0-based position i is
\* palette[i mod 4] of (#1976d2, #d32f2f, #388e3c, #fbc02d), the same for its
\* polyline, its point markers, its value labels and its legend entry.
LegendAndColoursFollowPalette ==
    Rendered =>
        LET colour(i) ==
               <<"#1976d2", "#d32f2f", "#388e3c", "#fbc02d">>[((i - 1) % 4) + 1]
        IN /\ Len(svg.legend) = Len(data)
           /\ \A i \in 1..Len(data) :
                 /\ svg.legend[i].label = data[i].label
                 /\ svg.legend[i].fill = colour(i)
                 /\ data[i].hasY =>
                       /\ svg.series[i].polyline.stroke = colour(i)
                       /\ \A j \in 1..Len(svg.series[i].markers) :
                             LET m == svg.series[i].markers[j]
                             IN /\ m.fill = colour(i)
                                /\ m.label # Nothing => m.label.fill = colour(i)

\* The modern renderer drew more series than the palette has colours, with
\* and without y, so that the fifth reuses the first colour.
PaletteWrapsAround ==
    /\ Rendered
    /\ svg.renderer = "modern"
    /\ Len(data) >= 5
    /\ data[1].hasY /\ data[5].hasY /\ ~data[2].hasY
    /\ svg.series[5].polyline.stroke = "#1976d2"
    /\ svg.legend[5].fill = "#1976d2"
    /\ svg.legend[2].fill = "#d32f2f"

\* The 1-based positions of the samples of series i that carry a value label.
LabelledPoints(i) ==
    {j \in 1..Len(svg.series[i].markers) : svg.series[i].markers[j].label # Nothing}

\* The least k with 20 * k >= n.
CeilOfTwentieth(n) == CHOOSE k \in 0..n : 20 * k >= n /\ \A h \in 0..n : 20 * h >= n => k <= h

\* C9: a series of N samples has a value label on every point when N <= 20
\* and otherwise exactly on the (0-based) indices j with j mod ceil(N/20) = 0;
\* for every N at most 20 points of a series are labelled.
ValueLabelsAreThinnedToTwenty ==
    (Rendered /\ svg.renderer = "modern") =>
        \A i \in DrawnSeries :
            LET N == Len(data[i].x)
            IN /\ Len(svg.series[i].markers) = N
               /\ N <= 20 => LabelledPoints(i) = 1..N
               /\ N > 20 =>
                     LabelledPoints(i) = {j \in 1..N : (j - 1) % CeilOfTwentieth(N) = 0}
               /\ Cardinality(LabelledPoints(i)) <= 20

\* A series long enough to be labelled on every third point only.
EveryThirdPointLabelled ==
    /\ Rendered
    /\ svg.renderer = "modern"
    /\ \E i \in DrawnSeries :
          /\ Len(data[i].x) > 40
          /\ 1 \in LabelledPoints(i) /\ 4 \in LabelledPoints(i)
          /\ 2 \notin LabelledPoints(i) /\ 3 \notin LabelledPoints(i)

\* C10: for a non-degenerate extent the renderer draws, for each fraction f of
\* 0.25, 0.5, 0.75, 1, a vertical gridline at
\* x = padding + f * (width - 2 * padding - legendWidth) and a horizontal
\* gridline at y = height - padding - f * (height - 2 * padding).
GridlinesAtQuarterFractions ==
    (Rendered /\ svg.renderer = "modern") =>
        LET g == ModernGeometry
            e == Extent(data)
            fractions == <<Frac(1, 4), Frac(2, 4), Frac(3, 4), Frac(4, 4)>>
        IN /\ Len(svg.grid) = 4
           /\ NonDegenerateX(e) =>
                 \A k \in 1..4 :
                    svg.grid[k].x =
                       JsAdd(Num(g.padding),
                             JsMul(fractions[k], Num(g.width - 2 * g.padding - g.legendWidth)))
           /\ NonDegenerateY(e) =>
                 \A k \in 1..4 :
                    svg.grid[k].y =
                       JsSub(Num(g.height - g.padding),
                             JsMul(fractions[k], Num(g.height - 2 * g.padding)))

\* The modern renderer drew the grid of an extent that is degenerate on
\* neither axis: the second gridlines lie in the middle of the plot area.
GridDrawnForNonDegenerateExtent ==
    /\ Rendered
    /\ svg.renderer = "modern"
    /\ NonDegenerateX(Extent(data))
    /\ NonDegenerateY(Extent(data))
    /\ svg.grid[2].x = Num(340)
    /\ svg.grid[2].y = Num(160)
    /\ svg.grid[4].x = Num(640)
    /\ svg.grid[4].y = Num(40)

\* C16: every sample is mapped inside the drawing area, whatever the order of
\* the samples: for a non-degenerate extent every polyline vertex and every
\* point marker has padding <= x <= width - padding - legendWidth and
\* padding <= y <= height - padding.
SamplesStayInsideDrawingArea ==
    Rendered =>
        LET g == GeometryOf(svg)
            e == Extent(data)
            InsideX(v) == /\ JsLeq(Num(g.padding), v)
                          /\ JsLeq(v, Num(g.width - g.padding - g.legendWidth))
            InsideY(v) == /\ JsLeq(Num(g.padding), v)
                          /\ JsLeq(v, Num(g.height - g.padding))
        IN \A i \in DrawnSeries :
              /\ \A j \in 1..Len(svg.series[i].polyline.points) :
                    /\ NonDegenerateX(e) => InsideX(svg.series[i].polyline.points[j][1])
                    /\ NonDegenerateY(e) => InsideY(svg.series[i].polyline.points[j][2])
              /\ \A j \in 1..Len(svg.series[i].markers) :
                    /\ NonDegenerateX(e) => InsideX(svg.series[i].markers[j].cx)
                    /\ NonDegenerateY(e) => InsideY(svg.series[i].markers[j].cy)

\* The modern renderer drew the markers of a series whose x array descends,
\* on both edges of the drawing area, over a non-degenerate extent.
DescendingSeriesDrawnInside ==
    /\ Rendered
    /\ svg.renderer = "modern"
    /\ NonDegenerateX(Extent(data))
    /\ NonDegenerateY(Extent(data))
    /\ \E i \in DrawnSeries :
          /\ Len(data[i].x) = 2
          /\ data[i].x[1] > data[i].x[2]
          /\ svg.series[i].markers[1].cx = Num(640)
          /\ svg.series[i].markers[2].cx = Num(40)
          /\ svg.series[i].markers[1].cy # svg.series[i].markers[2].cy

====
